---- MODULE Spec2Model ----
(***************************************************************************)
(* The data harvester of bottom: Data, DataCollector, init(), the setters, *)
(* update_data() and Data::cleanup() of src/app/data_harvester.rs.         *)
(*                                                                         *)
(* Option<T> is a set with at most one element: None is {} and Some(x) is  *)
(* {x}.  Result<T, E> is a record [ok, val].  Instants are counted in      *)
(* ticks of 250 ms (the length of init()'s sleep).                         *)
(***************************************************************************)
EXTENDS Integers, FiniteSets, Sequences, TLC

VARIABLES collector, now, pc, enumeration, last_call, cycle

vars == <<collector, now, pc, enumeration, last_call, cycle>>

----------------------------------------------------------------------------
(* Bounds of the model.                                                    *)

\* Last instant (in ticks) at which a cycle may start.
MaxTime == 2

\* Largest cumulative byte counter the network interfaces report.
MaxBytes == 1

\* Most probes that fail in one cycle.
MaxFailures == 2

\* Most fan-out probes that never complete in one cycle.
MaxHung == 1

\* init() sleeps 250 ms after the seed cycle; one tick is that long.
SleepMillis == 250

TickMillis == SleepMillis

SleepTicks == SleepMillis \div TickMillis

TicksPerSec == 1000 \div TickMillis

----------------------------------------------------------------------------
(* Option and Result.                                                      *)

None == {}

Some(x) == {x}

Ok(v) == [ok |-> TRUE, val |-> v]

Err == [ok |-> FALSE, val |-> None]

Unwrap(o) == CHOOSE x \in o : TRUE

----------------------------------------------------------------------------
(* UsedWidgets: the active-domain flags.                                   *)

UsedWidgetsOf(S) ==
    [use_cpu     |-> "cpu" \in S,
     use_mem     |-> "mem" \in S,
     use_net     |-> "net" \in S,
     use_proc    |-> "proc" \in S,
     use_disk    |-> "disk" \in S,
     use_temp    |-> "temp" \in S,
     use_battery |-> "battery" \in S]

AllDomains == {"cpu", "mem", "net", "proc", "disk", "temp", "battery"}

\* UsedWidgets::default(): nothing is harvested.
UsedWidgetsDefault == UsedWidgetsOf({})

\* The configurations a caller passes to set_collected_data.
WidgetChoices ==
    { UsedWidgetsOf(AllDomains),
      UsedWidgetsOf({}),
      UsedWidgetsOf({"cpu", "net"}) }

\* The probes that can fail, and those that can succeed with nothing found.
FallibleProbes == {"proc", "net", "mem", "swap", "disk", "io", "temp"}

EmptyableProbes == {"temp"}

\* The configuration flag each probe is run under.
FlagOf(w, p) ==
    CASE p = "cpu"     -> w.use_cpu
      [] p = "proc"    -> w.use_proc
      [] p = "net"     -> w.use_net
      [] p = "mem"     -> w.use_mem
      [] p = "swap"    -> w.use_mem
      [] p = "disk"    -> w.use_disk
      [] p = "io"      -> w.use_disk
      [] p = "temp"    -> w.use_temp
      [] p = "battery" -> w.use_battery

----------------------------------------------------------------------------
(* Data and DataCollector.                                                 *)

Data_default(t) ==
    [last_collection_time |-> t,
     cpu                  |-> None,
     memory               |-> None,
     swap                 |-> None,
     temperature_sensors  |-> None,
     list_of_processes    |-> None,
     disks                |-> None,
     io                   |-> None,
     network              |-> None,
     list_of_batteries    |-> None]

\* The value of recorded_at while no cycle has recorded a baseline.
NeverRecorded == -1

\* Three fields are not fields of the struct.  `harvested' logs which probes
\* the cycle in progress (or the last cycle) actually ran, `elapsed' the
\* elapsed time handed to the process probe (in whole seconds) and used by
\* the network probe (in ticks) in that cycle, and `recorded_at' the instant
\* of the cycle that recorded the network totals and the process map.
DataCollector_default(t) ==
    [data                 |-> Data_default(t),
     pid_mapping          |-> [p \in {} |-> 0],
     prev_idle            |-> 0,
     prev_non_idle        |-> 0,
     last_collection_time |-> t,
     total_rx             |-> 0,
     total_tx             |-> 0,
     widgets_to_harvest   |-> UsedWidgetsDefault,
     battery_manager      |-> None,
     battery_list         |-> None,
     harvested            |-> {},
     elapsed              |-> [proc |-> 0, net |-> 0],
     recorded_at          |-> [proc |-> NeverRecorded, net |-> NeverRecorded]]


----------------------------------------------------------------------------
(* What the host returns to the probes of one cycle: the instant read at   *)
(* line 206, the probes that fail, those that find nothing, the reading    *)
(* the others return, the cumulative network counters, the live processes  *)
(* with their cumulative cpu time and the cumulative cpu ticks.            *)

Pids == {"p1"}

Readings == {"r1", "r2"}

NoEnv ==
    [instant |-> 0, fails |-> {}, empty |-> {}, reading |-> "r1",
     rx |-> 0, tx |-> 0, procs |-> [p \in {} |-> 0], idle |-> 0, non_idle |-> 0]

\* A probe that is switched off does no work, so it neither fails nor
\* comes back empty.
Enabled(w, S) == {p \in S : FlagOf(w, p)}

----------------------------------------------------------------------------
(* The probes.  Their bodies live in the sibling modules cpu, mem, disks,  *)
(* network, processes, temperature and battery_harvester.                  *)

\* cpu::get_cpu_data_list: infallible.
get_cpu_data_list(e) == e.reading

\* battery_harvester::refresh_batteries: refreshes the kept device list.
refresh_batteries(battery_manager, battery_list, e) == e.reading

\* A probe with the uniform shape Result<Option<Reading>>: a probe that is
\* switched off returns Ok(None) without doing any work.
ProbeResult(p, actually_get, e) ==
    IF ~actually_get THEN Ok(None)
    ELSE IF p \in e.fails THEN Err
    ELSE IF p \in e.empty THEN Ok(None)
    ELSE Ok(Some(e.reading))

non_arm_mem_data(actually_get, e) == ProbeResult("mem", actually_get, e)

non_arm_swap_data(actually_get, e) == ProbeResult("swap", actually_get, e)

non_arm_disk_usage(actually_get, e) == ProbeResult("disk", actually_get, e)

non_arm_io_usage(get_physical, actually_get, e) == ProbeResult("io", actually_get, e)

linux_temperature_data(actually_get, e) == ProbeResult("temp", actually_get, e)

\* Bytes per second over `elapsed' ticks; 0 when no time has passed and 0
\* when the counter went backwards (a reset).
NetRate(cur, prev, elapsed) ==
    IF elapsed = 0 \/ cur < prev THEN 0
    ELSE ((cur - prev) * TicksPerSec) \div elapsed

\* network::non_arm_or_windows_network_data.  It returns the harvest and,
\* through its two &mut parameters, the tracked totals: on a counter reset
\* the baseline becomes the current counter.  `elapsed' is the time it
\* divided by.
non_arm_or_windows_network_data(prev_time, prev_net_rx, prev_net_tx, curr_time, actually_get, e) ==
    IF ~actually_get \/ "net" \in e.fails
    THEN [harvest |-> None, total_rx |-> prev_net_rx, total_tx |-> prev_net_tx,
          elapsed |-> 0]
    ELSE LET elapsed == curr_time - prev_time
         IN  [harvest  |-> Some([rx       |-> NetRate(e.rx, prev_net_rx, elapsed),
                                 tx       |-> NetRate(e.tx, prev_net_tx, elapsed),
                                 total_rx |-> e.rx,
                                 total_tx |-> e.tx]),
              total_rx |-> IF e.rx < prev_net_rx THEN e.rx ELSE prev_net_rx,
              total_tx |-> IF e.tx < prev_net_tx THEN e.tx ELSE prev_net_tx,
              elapsed  |-> elapsed]

\* NetworkHarvest::first_run_cleanup: the rates of the seed cycle are
\* dropped, the cumulative totals stay.
first_run_cleanup(network) == [network EXCEPT !.rx = 0, !.tx = 0]

\* processes::linux_processes.  On success the previous-sample state is
\* rebuilt from the current sample; on failure it is left as it was.
linux_processes(prev_idle, prev_non_idle, pid_mapping, time_difference_in_secs, e) ==
    IF "proc" \in e.fails
    THEN [res |-> Err, prev_idle |-> prev_idle, prev_non_idle |-> prev_non_idle,
          pid_mapping |-> pid_mapping]
    ELSE [res |-> Ok(Some(e.reading)), prev_idle |-> e.idle,
          prev_non_idle |-> e.non_idle, pid_mapping |-> e.procs]

----------------------------------------------------------------------------
(* Data::cleanup with the network field dropped like the others.           *)

Data_cleanup_DropNetwork(data) ==
    [data EXCEPT
        !.io                  = None,
        !.temperature_sensors = None,
        !.list_of_processes   = None,
        !.disks               = None,
        !.memory              = None,
        !.swap                = None,
        !.cpu                 = None,
        !.network             = None]

(* Data::cleanup, lines 56-68.                                             *)

Data_cleanup(data) ==
    [data EXCEPT
        !.io                  = None,
        !.temperature_sensors = None,
        !.list_of_processes   = None,
        !.disks               = None,
        !.memory              = None,
        !.swap                = None,
        !.cpu                 = None,
        !.network             = IF data.network # None
                                THEN Some(first_run_cleanup(Unwrap(data.network)))
                                ELSE None]

----------------------------------------------------------------------------
(* update_data, lines 173-453, step by step.  c is the collector, e what   *)
(* the host returns in this cycle, current_instant the instant of line 206.*)

\* The entry of a cycle stamping the collector as it captures the instant.
BeginCycle_StampFirst(c, current_instant) ==
    [c EXCEPT !.harvested = {}, !.elapsed = [proc |-> 0, net |-> 0],
              !.last_collection_time = current_instant]

\* Lines 173-206: the sysinfo refreshes and the capture of the instant
\* change nothing of the collector the model holds; the cycle's logs start
\* empty.
BeginCycle(c, current_instant) ==
    [c EXCEPT !.harvested = {}, !.elapsed = [proc |-> 0, net |-> 0]]

\* The cpu step keeping a reading that is already there.
CpuStep_KeepOld(c, e) ==
    IF c.widgets_to_harvest.use_cpu
    THEN [c EXCEPT !.data.cpu = IF @ = None THEN Some(get_cpu_data_list(e)) ELSE @,
                   !.harvested = @ \cup {"cpu"}]
    ELSE c

\* Lines 208-218.
CpuStep(c, e) ==
    IF c.widgets_to_harvest.use_cpu
    THEN [c EXCEPT !.data.cpu = Some(get_cpu_data_list(e)),
                   !.harvested = @ \cup {"cpu"}]
    ELSE c

\* Lines 220-236.
BatteryStep(c, e) ==
    IF c.battery_manager # None /\ c.battery_list # None
    THEN [c EXCEPT !.data.list_of_batteries =
                       Some(refresh_batteries(Unwrap(c.battery_manager),
                                              Unwrap(c.battery_list), e)),
                   !.harvested = @ \cup {"battery"}]
    ELSE c

\* Lines 250-252: current_instant.duration_since(earlier).as_secs(), the
\* whole seconds of the difference.
duration_since_as_secs(current_instant, earlier) ==
    (current_instant - earlier) \div TicksPerSec

\* Lines 238-285.
ProcessStep(c, e, current_instant) ==
    IF c.widgets_to_harvest.use_proc
    THEN LET secs == duration_since_as_secs(current_instant, c.last_collection_time)
             r == linux_processes(c.prev_idle, c.prev_non_idle, c.pid_mapping,
                                  secs, e)
             d == [c EXCEPT !.prev_idle = r.prev_idle,
                            !.prev_non_idle = r.prev_non_idle,
                            !.pid_mapping = r.pid_mapping,
                            !.harvested = @ \cup {"proc"},
                            !.elapsed.proc = secs]
         IN  IF r.res.ok
             THEN [d EXCEPT !.data.list_of_processes = r.res.val,
                            !.recorded_at.proc = current_instant]
             ELSE d
    ELSE c

\* The network future given the cycle's instant as the previous one too.
FanOut_NoElapsed(c, e, current_instant) ==
    [net  |-> non_arm_or_windows_network_data(current_instant, c.total_rx,
                  c.total_tx, current_instant, c.widgets_to_harvest.use_net, e),
     mem  |-> non_arm_mem_data(c.widgets_to_harvest.use_mem, e),
     swap |-> non_arm_swap_data(c.widgets_to_harvest.use_mem, e),
     disk |-> non_arm_disk_usage(c.widgets_to_harvest.use_disk, e),
     io   |-> non_arm_io_usage(FALSE, c.widgets_to_harvest.use_disk, e),
     temp |-> linux_temperature_data(c.widgets_to_harvest.use_temp, e)]

\* Lines 288-385: the six futures and what join! returns for them.
FanOut(c, e, current_instant) ==
    [net  |-> non_arm_or_windows_network_data(c.last_collection_time, c.total_rx,
                  c.total_tx, current_instant, c.widgets_to_harvest.use_net, e),
     mem  |-> non_arm_mem_data(c.widgets_to_harvest.use_mem, e),
     swap |-> non_arm_swap_data(c.widgets_to_harvest.use_mem, e),
     disk |-> non_arm_disk_usage(c.widgets_to_harvest.use_disk, e),
     io   |-> non_arm_io_usage(FALSE, c.widgets_to_harvest.use_disk, e),
     temp |-> linux_temperature_data(c.widgets_to_harvest.use_temp, e)]

\* Lines 387-401.
HandleNetwork(c, net_data, current_instant) ==
    IF net_data # None
    THEN [c EXCEPT !.total_rx = Unwrap(net_data).total_rx,
                   !.total_tx = Unwrap(net_data).total_tx,
                   !.data.network = net_data,
                   !.recorded_at.net = current_instant]
    ELSE c

\* The result handling giving up at the first failed probe.
HandleResults_AbortOnError(c, res) ==
    LET ok1 == res.mem.ok
        ok2 == ok1 /\ res.swap.ok
        ok3 == ok2 /\ res.disk.ok
        ok4 == ok3 /\ res.io.ok
        ok5 == ok4 /\ res.temp.ok
    IN  [c EXCEPT
            !.data.memory = IF ok1 THEN res.mem.val ELSE @,
            !.data.swap   = IF ok2 THEN res.swap.val ELSE @,
            !.data.disks  = IF ok3 THEN res.disk.val ELSE @,
            !.data.io     = IF ok4 THEN res.io.val ELSE @,
            !.data.temperature_sensors = IF ok5 THEN res.temp.val ELSE @]

\* Lines 403-448.
HandleResults(c, res) ==
    [c EXCEPT
        !.data.memory = IF res.mem.ok THEN res.mem.val ELSE @,
        !.data.swap   = IF res.swap.ok THEN res.swap.val ELSE @,
        !.data.disks  = IF res.disk.ok THEN res.disk.val ELSE @,
        !.data.io     = IF res.io.ok THEN res.io.val ELSE @,
        !.data.temperature_sensors = IF res.temp.ok THEN res.temp.val ELSE @]

\* The stamp without line 452.
StampTime_DataOnly(c, current_instant) ==
    [c EXCEPT !.data.last_collection_time = current_instant]

\* Lines 450-452.
StampTime(c, current_instant) ==
    [c EXCEPT !.data.last_collection_time = current_instant,
              !.last_collection_time = current_instant]

\* The six futures of join!, in its order (lines 378-385).
SixProbes == {"net", "mem", "swap", "disk", "io", "temp"}

\* A probe storing its result in Data as soon as it completes.
ProbeEffect_StoreAtOnce(c, p, r) ==
    LET d == [c EXCEPT !.harvested = @ \cup Enabled(c.widgets_to_harvest, {p})]
    IN  CASE p = "net"  -> [d EXCEPT !.total_rx = r.total_rx,
                                     !.total_tx = r.total_tx,
                                     !.elapsed.net = r.elapsed,
                                     !.data.network = IF r.harvest # None
                                                      THEN r.harvest ELSE @]
          [] p = "mem"  -> [d EXCEPT !.data.memory = IF r.ok THEN r.val ELSE @]
          [] p = "swap" -> [d EXCEPT !.data.swap = IF r.ok THEN r.val ELSE @]
          [] p = "disk" -> [d EXCEPT !.data.disks = IF r.ok THEN r.val ELSE @]
          [] p = "io"   -> [d EXCEPT !.data.io = IF r.ok THEN r.val ELSE @]
          [] p = "temp" -> [d EXCEPT !.data.temperature_sensors =
                                         IF r.ok THEN r.val ELSE @]

\* What the completion of the future of probe p with output r does to the
\* collector: the network future holds &mut total_rx and &mut total_tx
\* (lines 294-295, 304-305) and writes through them; no other future holds
\* a reference into the collector.  The flags say whether p did any work.
ProbeEffect(c, p, r) ==
    LET d == [c EXCEPT !.harvested = @ \cup Enabled(c.widgets_to_harvest, {p})]
    IN  IF p = "net"
        THEN [d EXCEPT !.total_rx = r.total_rx,
                       !.total_tx = r.total_tx,
                       !.elapsed.net = r.elapsed]
        ELSE d

\* The fan-out phase's effect on the collector: the six futures driven to
\* completion by join! (lines 378-385).
FanOutEffect(c, res) ==
    LET c1 == ProbeEffect(c, "net", res.net)
        c2 == ProbeEffect(c1, "mem", res.mem)
        c3 == ProbeEffect(c2, "swap", res.swap)
        c4 == ProbeEffect(c3, "disk", res.disk)
        c5 == ProbeEffect(c4, "io", res.io)
    IN  ProbeEffect(c5, "temp", res.temp)

\* Lines 387-452: what update_data does once join! has returned.
AfterJoin(c, res, current_instant) ==
    LET c1 == HandleNetwork(c, res.net.harvest, current_instant)
        c2 == HandleResults(c1, res)
    IN  StampTime(c2, current_instant)

update_data(c, e) ==
    LET current_instant == e.instant
        c0 == BeginCycle(c, current_instant)
        c1 == CpuStep(c0, e)
        c2 == BatteryStep(c1, e)
        c3 == ProcessStep(c2, e, current_instant)
        res == FanOut(c3, e, current_instant)
        c4 == FanOutEffect(c3, res)
    IN  AfterJoin(c4, res, current_instant)

----------------------------------------------------------------------------
(* init, lines 128-155.  b is what battery enumeration returns.            *)

\* Manager::new() fails, batteries() fails, the device list is empty, or
\* a battery is found; with use_battery off nothing is enumerated.
BatteryOutcomes(w) ==
    IF w.use_battery THEN {"no_manager", "list_error", "empty", "found"}
    ELSE {"skipped"}

\* The enumeration without the assignment of line 140.
EnumerateBatteries_ListOnly(c, b) ==
    IF c.widgets_to_harvest.use_battery /\ b = "found"
    THEN [c EXCEPT !.battery_list = Some(<<"BAT0">>)]
    ELSE c

\* The enumeration without the emptiness test of line 138.
EnumerateBatteries_KeepEmpty(c, b) ==
    IF c.widgets_to_harvest.use_battery /\ b \notin {"no_manager", "list_error"}
    THEN [c EXCEPT !.battery_list = Some(IF b = "found" THEN <<"BAT0">> ELSE << >>),
                   !.battery_manager = Some("manager")]
    ELSE c

\* Lines 133-144.
EnumerateBatteries(c, b) ==
    IF c.widgets_to_harvest.use_battery
    THEN IF b # "no_manager"
         THEN IF b # "list_error"
              THEN LET battery_list == IF b = "found" THEN <<"BAT0">> ELSE << >>
                   IN  IF battery_list # << >>
                       THEN [c EXCEPT !.battery_list = Some(battery_list),
                                      !.battery_manager = Some("manager")]
                       ELSE c
              ELSE c
         ELSE c
    ELSE c

\* init() without the seed cycle.
init_NoSeed(c, b, e) ==
    LET c1 == EnumerateBatteries(c, b)
    IN  [c1 EXCEPT !.data = Data_cleanup(c1.data)]

init(c, b, e) ==
    LET c1 == EnumerateBatteries(c, b)
        c2 == update_data(c1, e)
    IN  [c2 EXCEPT !.data = Data_cleanup(c2.data)]

\* Lines 157-159.
set_collected_data(c, used_widgets) ==
    [c EXCEPT !.widgets_to_harvest = used_widgets]

----------------------------------------------------------------------------
(* The state machine.  pc is "new" until init() has run, then "ready".     *)
(* `now' is the least instant the monotonic clock can still return.        *)
(* last_call records the last call made on the collector and what the host *)
(* returned to it, enumeration what init()'s battery enumeration returned. *)

Call(op, e) ==
    [op |-> op, prev_op |-> last_call.op, env |-> e]

\* What the host can return to a cycle run under the flags w.  A probe
\* that is switched off does no work, so it is never among those that fail
\* or find nothing.  Net holds the <<rx, tx>> counter pairs.
EnvSet(w, Instants, Fails, Empties, Rds, Net) ==
    { [instant |-> t, fails |-> f, empty |-> m, reading |-> r,
       rx |-> x[1], tx |-> x[2], procs |-> [p \in Pids |-> 1],
       idle |-> 1, non_idle |-> 1] :
        t \in Instants,
        f \in {F \in SUBSET Enabled(w, Fails) : Cardinality(F) <= MaxFailures},
        m \in SUBSET Enabled(w, Empties),
        r \in Rds, x \in Net }

\* Up to MaxFailures of the probes fail; the clock and the counters stand
\* still but for the sleep of init().
EnvFailures(w) ==
    EnvSet(w, {now}, FallibleProbes, EmptyableProbes, {"r1"}, {<<1, 1>>})

\* Only the network probe fails; the clock, the readings and the network
\* counters move: rx up while tx falls back, and the reverse.
EnvRates(w) ==
    EnvSet(w, now..MaxTime, {"net"}, {}, Readings,
           {<<x, MaxBytes - x>> : x \in 0..MaxBytes})

\* The sets of live processes the process probe can find.
ProcSamples == { [p \in S |-> 1] : S \in SUBSET Pids }

\* The set of live processes changes and no probe fails; the clock and the
\* counters stand still but for the sleep of init().
EnvProcs(w) ==
    { [e EXCEPT !.procs = s] :
        e \in EnvSet(w, {now}, {}, {}, {"r1"}, {<<1, 1>>}),
        s \in ProcSamples }

\* The clock moves one tick or a second and a tick between two cycles, the
\* network probe may fail and the network counters move: rx up while tx
\* falls back, and the reverse.
EnvElapsed(w) ==
    EnvSet(w, {t \in {now + 1, now + TicksPerSec + 1} :
                  t <= MaxTime + TicksPerSec + 1},
           {"net"}, {}, {"r1"}, {<<x, MaxBytes - x>> : x \in 0..MaxBytes})

\* The memory probe may fail; the clock and the counters stand still but
\* for the sleep of init().
EnvAsync(w) ==
    EnvSet(w, {now}, {"mem"}, {}, {"r1"}, {<<1, 1>>})

\* No probe fails; the clock and the counters stand still but for the
\* sleep of init().
EnvHang(w) ==
    EnvSet(w, {now}, {}, {}, {"r1"}, {<<1, 1>>})

\* The futures that may never complete.
HangingProbes == {"net", "temp"}

HangChoices == {H \in SUBSET HangingProbes : Cardinality(H) <= MaxHung}

\* What join! holds before any future has completed.
NoResults == FanOut(DataCollector_default(0), NoEnv, 0)

\* No update_data() is in progress.  While one is, `cycle' holds its
\* position pc, what the host returns to it, the collector as it was when
\* the cycle began, the sequential steps already run, the futures join! is
\* still waiting for, those that will never complete and the outputs of
\* those that have completed.
IdleCycle ==
    [pc      |-> "idle",
     env     |-> NoEnv,
     start   |-> DataCollector_default(0),
     log     |-> << >>,
     pending |-> {},
     hung    |-> {},
     res     |-> NoResults]

Init ==
    /\ collector = DataCollector_default(0)
    /\ now = 0
    /\ pc = "new"
    /\ enumeration = "none"
    /\ last_call = [op |-> "new", prev_op |-> "new", env |-> NoEnv]
    /\ cycle = IdleCycle

\* update_data() borrows the collector mutably until it returns, so no
\* other call starts while a cycle is in progress.
SetCollectedData(used_widgets) ==
    /\ cycle.pc = "idle"
    /\ collector' = set_collected_data(collector, used_widgets)
    /\ last_call' = Call("set", NoEnv)
    /\ cycle' = IdleCycle
    /\ UNCHANGED <<now, pc, enumeration>>

InitCall(b, e) ==
    /\ pc = "new"
    /\ cycle.pc = "idle"
    /\ collector' = init(collector, b, e)
    /\ now' = e.instant + SleepTicks
    /\ pc' = "ready"
    /\ enumeration' = b
    /\ last_call' = Call("init", e)
    /\ cycle' = IdleCycle

UpdateData(e) ==
    /\ pc = "ready"
    /\ cycle.pc = "idle"
    /\ collector' = update_data(collector, e)
    /\ now' = e.instant
    /\ last_call' = Call("update", e)
    /\ UNCHANGED <<pc, enumeration, cycle>>

Cleanup ==
    /\ pc = "ready"
    /\ cycle.pc = "idle"
    /\ collector' = [collector EXCEPT !.data = Data_cleanup(collector.data)]
    /\ last_call' = Call("cleanup", NoEnv)
    /\ cycle' = IdleCycle
    /\ UNCHANGED <<now, pc, enumeration>>

Next ==
    \/ \E w \in WidgetChoices : SetCollectedData(w)
    \/ \E b \in BatteryOutcomes(collector.widgets_to_harvest) :
         \E e \in EnvFailures(collector.widgets_to_harvest) : InitCall(b, e)
    \/ \E e \in EnvFailures(collector.widgets_to_harvest) : UpdateData(e)
    \/ Cleanup

Spec == Init /\ [][Next]_vars

NextRates ==
    \/ \E w \in WidgetChoices : SetCollectedData(w)
    \/ \E b \in BatteryOutcomes(collector.widgets_to_harvest) :
         \E e \in EnvRates(collector.widgets_to_harvest) : InitCall(b, e)
    \/ \E e \in EnvRates(collector.widgets_to_harvest) : UpdateData(e)
    \/ Cleanup

SpecRates == Init /\ [][NextRates]_vars

----------------------------------------------------------------------------
(* update_data() as one step that keeps, in cycle.start, the collector it  *)
(* was called on.                                                          *)

UpdateDataFrom(e) ==
    /\ pc = "ready"
    /\ cycle.pc = "idle"
    /\ collector' = update_data(collector, e)
    /\ now' = e.instant
    /\ last_call' = Call("update", e)
    /\ cycle' = [IdleCycle EXCEPT !.start = collector]
    /\ UNCHANGED <<pc, enumeration>>

NextProcs ==
    \/ \E w \in WidgetChoices : SetCollectedData(w)
    \/ \E b \in BatteryOutcomes(collector.widgets_to_harvest) :
         \E e \in EnvProcs(collector.widgets_to_harvest) : InitCall(b, e)
    \/ \E e \in EnvProcs(collector.widgets_to_harvest) : UpdateDataFrom(e)
    \/ Cleanup

SpecProcs == Init /\ [][NextProcs]_vars

NextElapsed ==
    \/ \E w \in WidgetChoices : SetCollectedData(w)
    \/ \E b \in BatteryOutcomes(collector.widgets_to_harvest) :
         \E e \in EnvElapsed(collector.widgets_to_harvest) : InitCall(b, e)
    \/ \E e \in EnvElapsed(collector.widgets_to_harvest) : UpdateDataFrom(e)
    \/ Cleanup

SpecElapsed == Init /\ [][NextElapsed]_vars

----------------------------------------------------------------------------
(* update_data() step by step: the three sequential harvests, the creation *)
(* and first poll of the six futures, their completions in any order, and  *)
(* the code after join!.                                                   *)

\* The order of the statements of lines 208-287.
PhaseAfter_FanOutBeforeProcesses(ph) ==
    CASE ph = "cpu"     -> "battery"
      [] ph = "battery" -> "fanout"
      [] ph = "proc"    -> "fanout"

PhaseAfter(ph) ==
    CASE ph = "cpu"     -> "battery"
      [] ph = "battery" -> "proc"
      [] ph = "proc"    -> "fanout"

\* join! returning as soon as one future has completed.
JoinReady_FirstDone(pending) == pending # SixProbes

\* join! (lines 378-385) returns when all six futures have completed.
JoinReady(pending) == pending = {}

Advance(cy) ==
    [cy EXCEPT !.pc = PhaseAfter(@), !.log = Append(@, cy.pc)]

\* Lines 173-206.  h: the futures that will never complete.
BeginUpdate(e, h) ==
    /\ pc = "ready"
    /\ cycle.pc = "idle"
    /\ collector' = BeginCycle(collector, e.instant)
    /\ cycle' = [IdleCycle EXCEPT !.pc = "cpu", !.env = e, !.hung = h,
                                  !.start = collector]
    /\ UNCHANGED <<now, pc, enumeration, last_call>>

StepCpu ==
    /\ cycle.pc = "cpu"
    /\ collector' = CpuStep(collector, cycle.env)
    /\ cycle' = Advance(cycle)
    /\ UNCHANGED <<now, pc, enumeration, last_call>>

StepBattery ==
    /\ cycle.pc = "battery"
    /\ collector' = BatteryStep(collector, cycle.env)
    /\ cycle' = Advance(cycle)
    /\ UNCHANGED <<now, pc, enumeration, last_call>>

StepProcess ==
    /\ cycle.pc = "proc"
    /\ collector' = ProcessStep(collector, cycle.env, cycle.env.instant)
    /\ cycle' = Advance(cycle)
    /\ UNCHANGED <<now, pc, enumeration, last_call>>

\* Lines 288-378: the futures are created and join! polls each of them for
\* the first time.
PollFutures ==
    /\ cycle.pc = "fanout"
    /\ cycle' = [cycle EXCEPT !.pc = "join", !.pending = SixProbes]
    /\ UNCHANGED <<collector, now, pc, enumeration, last_call>>

\* The future of probe p completes.
ProbeCompletes(p) ==
    /\ cycle.pc = "join"
    /\ p \in cycle.pending \ cycle.hung
    /\ LET r == FanOut(collector, cycle.env, cycle.env.instant)[p]
       IN  /\ collector' = ProbeEffect(collector, p, r)
           /\ cycle' = [cycle EXCEPT !.pending = @ \ {p}, !.res[p] = r]
    /\ UNCHANGED <<now, pc, enumeration, last_call>>

\* join! returns and lines 387-452 run.
JoinReturns ==
    /\ cycle.pc = "join"
    /\ JoinReady(cycle.pending)
    /\ collector' = AfterJoin(collector, cycle.res, cycle.env.instant)
    /\ now' = cycle.env.instant
    /\ last_call' = Call("update", cycle.env)
    /\ cycle' = IdleCycle
    /\ UNCHANGED <<pc, enumeration>>

\* Every future completes.
NextAsync ==
    \/ \E w \in WidgetChoices : SetCollectedData(w)
    \/ \E b \in BatteryOutcomes(collector.widgets_to_harvest) :
         \E e \in EnvAsync(collector.widgets_to_harvest) : InitCall(b, e)
    \/ Cleanup
    \/ \E e \in EnvAsync(collector.widgets_to_harvest) : BeginUpdate(e, {})
    \/ StepCpu
    \/ StepBattery
    \/ StepProcess
    \/ PollFutures
    \/ \E p \in SixProbes : ProbeCompletes(p)
    \/ JoinReturns

SpecAsync == Init /\ [][NextAsync]_vars

\* Up to MaxHung futures never complete.
NextHang ==
    \/ \E w \in WidgetChoices : SetCollectedData(w)
    \/ \E b \in BatteryOutcomes(collector.widgets_to_harvest) :
         \E e \in EnvHang(collector.widgets_to_harvest) : InitCall(b, e)
    \/ Cleanup
    \/ \E e \in EnvHang(collector.widgets_to_harvest) :
         \E h \in HangChoices : BeginUpdate(e, h)
    \/ StepCpu
    \/ StepBattery
    \/ StepProcess
    \/ PollFutures
    \/ \E p \in SixProbes : ProbeCompletes(p)
    \/ JoinReturns

\* The code of update_data() itself: at most one of its steps can be taken
\* at a time.
CycleCode ==
    StepCpu \/ StepBattery \/ StepProcess \/ PollFutures \/ JoinReturns

\* The executor runs the cycle's code whenever it can run, and a future
\* that is not hung completes.
FairAsync ==
    /\ WF_vars(CycleCode)
    /\ \A p \in SixProbes : WF_vars(ProbeCompletes(p))

SpecHang == Init /\ [][NextHang]_vars /\ FairAsync

----------------------------------------------------------------------------
(* The claims.                                                             *)

AllProbes == FallibleProbes \cup {"cpu", "battery"}

\* The field of Data that holds a probe's result.
Field(data, p) ==
    CASE p = "cpu"     -> data.cpu
      [] p = "proc"    -> data.list_of_processes
      [] p = "net"     -> data.network
      [] p = "mem"     -> data.memory
      [] p = "swap"    -> data.swap
      [] p = "disk"    -> data.disks
      [] p = "io"      -> data.io
      [] p = "temp"    -> data.temperature_sensors
      [] p = "battery" -> data.list_of_batteries

\* The domain a probe belongs to: swap is harvested under the memory flag
\* and disk I/O under the disk flag.
DomainOf(p) ==
    CASE p = "swap" -> "mem"
      [] p = "io"   -> "disk"
      [] OTHER      -> p

CycleDone == last_call.op = "update"

\* C1: a domain that is disabled when update_data() starts has its field
\* None when that update_data() completes.
C1_DisabledIsNone ==
    CycleDone =>
        \A p \in AllProbes :
            ~FlagOf(collector.widgets_to_harvest, p)
                => Field(collector.data, p) = None

\* C2: a probe that failed in the cycle leaves its field None.
C2_FailedIsNone ==
    CycleDone =>
        \A p \in last_call.env.fails : Field(collector.data, p) = None

\* What a probe that did not fail hands to the cycle.
Returned(p, e) ==
    IF p \in e.empty THEN None ELSE Some(e.reading)

Stored(c, p, e) ==
    IF p = "net"
    THEN /\ c.data.network # None
         /\ Unwrap(c.data.network).total_rx = e.rx
         /\ Unwrap(c.data.network).total_tx = e.tx
    ELSE Field(c.data, p) = Returned(p, e)

\* C3: in a cycle where some probes fail, every other enabled probe's
\* result is stored in its field and both timestamps are stamped with the
\* cycle's instant.
C3_FailuresAreIsolated ==
    (CycleDone /\ last_call.env.fails # {}) =>
        /\ collector.data.last_collection_time = last_call.env.instant
        /\ collector.last_collection_time = last_call.env.instant
        /\ \A p \in Enabled(collector.widgets_to_harvest, FallibleProbes)
                      \ last_call.env.fails :
               Stored(collector, p, last_call.env)

C3_Witness ==
    /\ CycleDone
    /\ Cardinality(last_call.env.fails) = 2
    /\ collector.widgets_to_harvest = UsedWidgetsOf(AllDomains)
    /\ collector.data.memory = None
    /\ collector.data.swap # None

\* C4: every enabled domain whose probe returned a value in the cycle
\* holds exactly that value when the cycle completes.
C4_FieldsHoldThisCycle ==
    CycleDone =>
        \A p \in Enabled(collector.widgets_to_harvest, AllProbes) :
            (p \notin last_call.env.fails /\ (p = "battery" => enumeration = "found"))
                => Stored(collector, p, last_call.env)

C4_Witness ==
    /\ CycleDone
    /\ last_call.prev_op = "update"
    /\ last_call.env.fails = {}
    /\ last_call.env.reading = "r2"
    /\ enumeration = "found"
    /\ \A p \in AllProbes \ {"net"} : Field(collector.data, p) = {"r2"}
    /\ collector.data.network # None

\* C5: the domains a cycle harvests are exactly those enabled in the
\* configuration most recently passed to set_collected_data, battery
\* included.  (A battery domain whose enumeration found no device is left
\* out of the comparison: the claim is about the configuration.)
C5_HarvestedIsConfigured ==
    CycleDone =>
        LET skip == IF enumeration \in {"no_manager", "list_error", "empty"}
                    THEN {"battery"} ELSE {}
        IN  {DomainOf(p) : p \in collector.harvested} \ skip
              = {dm \in AllDomains : FlagOf(collector.widgets_to_harvest, dm)} \ skip

\* C6: after every completed cycle both collection timestamps equal the
\* instant captured for the cycle, and the timestamps never decrease.
C6_TimestampsAgree ==
    /\ [](last_call.op \in {"update", "init"} =>
            /\ collector.data.last_collection_time = last_call.env.instant
            /\ collector.last_collection_time = last_call.env.instant)
    /\ [][/\ collector'.last_collection_time >= collector.last_collection_time
          /\ collector'.data.last_collection_time
                >= collector.data.last_collection_time]_vars

C6_Witness ==
    /\ CycleDone
    /\ last_call.prev_op = "update"
    /\ collector.last_collection_time = MaxTime
    /\ collector.data.last_collection_time = MaxTime

\* C7: after cleanup (alone or as the last step of init) every per-cycle
\* field but network is None.
C7_CleanupClearsAll ==
    last_call.op \in {"cleanup", "init"} =>
        \A p \in AllProbes \ {"net"} : Field(collector.data, p) = None

\* The collector's delta state.
DeltaState(c) ==
    <<c.prev_idle, c.prev_non_idle, c.pid_mapping, c.total_rx, c.total_tx,
      c.last_collection_time>>

\* C8: Data::cleanup() leaves the delta state unchanged and keeps a present
\* network field present with its cumulative totals; after init() the delta
\* state is the one the seed cycle recorded.
C8_CleanupKeepsBaseline ==
    [][/\ last_call'.op = "cleanup" =>
            /\ DeltaState(collector') = DeltaState(collector)
            /\ collector.data.network # None =>
                 /\ collector'.data.network # None
                 /\ Unwrap(collector'.data.network).total_rx
                      = Unwrap(collector.data.network).total_rx
                 /\ Unwrap(collector'.data.network).total_tx
                      = Unwrap(collector.data.network).total_tx
       /\ (last_call'.op = "init" /\ collector'.widgets_to_harvest.use_net
             /\ "net" \notin last_call'.env.fails) =>
            /\ collector'.data.network # None
            /\ Unwrap(collector'.data.network).total_rx = last_call'.env.rx
            /\ Unwrap(collector'.data.network).total_tx = last_call'.env.tx
       /\ (last_call'.op = "init" /\ collector'.widgets_to_harvest.use_proc) =>
            /\ collector'.pid_mapping = last_call'.env.procs
            /\ collector'.prev_idle = last_call'.env.idle
            /\ collector'.prev_non_idle = last_call'.env.non_idle
      ]_vars

C8_Witness ==
    /\ last_call.op = "cleanup"
    /\ last_call.prev_op = "update"
    /\ collector.data.network # None
    /\ Unwrap(collector.data.network).total_rx = MaxBytes
    /\ collector.total_rx = MaxBytes
    /\ DOMAIN collector.pid_mapping = Pids
    /\ collector.last_collection_time > 0

\* The rate a cycle at instant t reading the counter cur reports against a
\* baseline prev recorded at instant t0 < t.
ExpectedRate(cur, prev, t, t0) ==
    IF cur < prev THEN 0 ELSE ((cur - prev) * TicksPerSec) \div (t - t0)

\* C9: after init() with the network enabled and a successful seed probe
\* the tracked totals are the seed cycle's counters and last_collection_time
\* the seed instant, and the first update_data() after init() computes its
\* rates against them.
C9_SeededBaseline ==
    /\ [](( /\ last_call.op = "init"
            /\ collector.widgets_to_harvest.use_net
            /\ "net" \notin last_call.env.fails ) =>
            /\ collector.total_rx = last_call.env.rx
            /\ collector.total_tx = last_call.env.tx
            /\ collector.last_collection_time = last_call.env.instant)
    /\ [][( /\ last_call.op = "init"
            /\ collector.widgets_to_harvest.use_net
            /\ "net" \notin last_call.env.fails
            /\ last_call'.op = "update"
            /\ "net" \notin last_call'.env.fails ) =>
            /\ collector'.data.network # None
            /\ Unwrap(collector'.data.network).rx
                 = ExpectedRate(last_call'.env.rx, last_call.env.rx,
                                last_call'.env.instant, last_call.env.instant)
            /\ Unwrap(collector'.data.network).tx
                 = ExpectedRate(last_call'.env.tx, last_call.env.tx,
                                last_call'.env.instant, last_call.env.instant)
      ]_vars

C9_Witness ==
    /\ CycleDone
    /\ last_call.prev_op = "init"
    /\ collector.data.network # None
    /\ Unwrap(collector.data.network).rx > 0
    /\ Unwrap(collector.data.network).rx < MaxBytes * TicksPerSec
    /\ Unwrap(collector.data.network).tx = 0

\* C10: when init()'s battery enumeration failed, init() completed and the
\* batteries field is None ever after, whatever the configuration.
C10_NoBatteriesAfterFailedEnumeration ==
    enumeration \in {"no_manager", "list_error", "empty"} =>
        /\ pc = "ready"
        /\ collector.battery_manager = None
        /\ collector.data.list_of_batteries = None

C10_Witness ==
    /\ enumeration = "empty"
    /\ CycleDone
    /\ last_call.prev_op = "update"
    /\ collector.widgets_to_harvest.use_battery
    /\ collector.data.cpu # None

\* The cycle whose update_data() has just returned: its flags (no setter
\* runs inside a cycle), what the host returned to it and the collector it
\* was called on.
CycleFlags == collector.widgets_to_harvest

CycleEnv == last_call.env

CycleStart == cycle.start

\* C11: after any update_data() cycle the keys of pid_mapping are exactly
\* the process ids observed in that cycle, also when the process domain is
\* disabled or the process probe fails.  (In such a cycle the probe has
\* observed either nothing or, had it looked, the live processes: the
\* formula accepts both.)
C11_MapIsThisCyclesPids ==
    CycleDone =>
        \/ DOMAIN collector.pid_mapping = DOMAIN CycleEnv.procs
        \/ /\ ~CycleFlags.use_proc \/ "proc" \in CycleEnv.fails
           /\ DOMAIN collector.pid_mapping = {}

\* What the claim says of one direction of the network harvest: the rate
\* reported for the counter cur against the baseline prev after `elapsed'
\* ticks, and the total tracked afterwards.
RateAsClaimed(rate, total, cur, prev, elapsed) ==
    /\ rate >= 0
    /\ IF cur < prev
       THEN rate = 0 /\ total = cur
       ELSE elapsed > 0 => rate = ((cur - prev) * TicksPerSec) \div elapsed

\* C12: the network rate is never negative; when a counter is below the
\* tracked total (a reset) the rate is 0 and the tracked total becomes the
\* counter; otherwise the rate is (current - previous) / elapsed seconds.
C12_RateOrReset ==
    (CycleDone /\ CycleFlags.use_net /\ "net" \notin CycleEnv.fails) =>
        /\ collector.data.network # None
        /\ LET n == Unwrap(collector.data.network)
               elapsed == CycleEnv.instant - CycleStart.last_collection_time
           IN  /\ RateAsClaimed(n.rx, collector.total_rx, CycleEnv.rx,
                                CycleStart.total_rx, elapsed)
               /\ RateAsClaimed(n.tx, collector.total_tx, CycleEnv.tx,
                                CycleStart.total_tx, elapsed)

C12_Witness ==
    /\ CycleDone
    /\ CycleFlags.use_net
    /\ CycleEnv.instant = CycleStart.last_collection_time + 1
    /\ CycleStart.total_rx > CycleEnv.rx
    /\ CycleStart.total_tx < CycleEnv.tx
    /\ Unwrap(collector.data.network).rx = 0
    /\ Unwrap(collector.data.network).tx > 0
    /\ collector.total_rx = CycleEnv.rx

\* The steps of a cycle in progress.
InCycle == cycle.pc # "idle" \/ cycle'.pc # "idle"

CpuAndPidState(c) == <<c.prev_idle, c.prev_non_idle, c.pid_mapping>>

NetTotals(c) == <<c.total_rx, c.total_tx>>

\* C13 as claimed: no step of the fan-out, of the join or of the code after
\* the join changes the delta state.
C13_DeltaOnlyInSequentialPhase ==
    [][cycle.pc \in {"fanout", "join"}
          => DeltaState(collector') = DeltaState(collector)]_vars

\* C13: the cpu counters and the pid map change only in the process step;
\* the tracked network totals change only when the network future
\* completes and in the code after join!; last_collection_time changes
\* only in the code after join!.
C13_DeltaWriters ==
    [][InCycle =>
          /\ cycle.pc # "proc"
                => CpuAndPidState(collector') = CpuAndPidState(collector)
          /\ NetTotals(collector') # NetTotals(collector)
                => /\ cycle.pc = "join"
                   /\ \/ cycle'.pc = "idle"
                      \/ cycle.pending \ cycle'.pending = {"net"}
          /\ collector'.last_collection_time # collector.last_collection_time
                => cycle.pc = "join" /\ cycle'.pc = "idle"
      ]_vars

C13_Witness ==
    /\ cycle.pc = "join"
    /\ cycle.pending = {}
    /\ collector.pid_mapping # CycleStart.pid_mapping
    /\ cycle.res.net.harvest # None
    /\ Unwrap(cycle.res.net.harvest).total_rx # collector.total_rx
    /\ cycle.env.instant > collector.last_collection_time

SequentialSteps == <<"cpu", "battery", "proc">>

\* C14: the cpu, battery and process harvests run in that order, and all
\* three have run before any of the six futures starts.
C14_SequentialBeforeFanOut ==
    /\ cycle.log = SubSeq(SequentialSteps, 1, Len(cycle.log))
    /\ cycle.pc \in {"cpu", "battery", "proc", "fanout"} =>
          /\ cycle.pending = {}
          /\ cycle.res = NoResults
    /\ cycle.pc = "join" =>
          /\ cycle.log = SequentialSteps
          /\ Enabled(cycle.start.widgets_to_harvest, {"cpu", "proc"})
                \subseteq collector.harvested

C14_Witness ==
    /\ cycle.pc = "join"
    /\ cycle.pending = SixProbes
    /\ cycle.log = SequentialSteps
    /\ {"cpu", "battery", "proc"} \subseteq collector.harvested

\* C15: whatever the order in which the six futures complete, the cycle
\* ends in the state update_data() computes from the collector it started
\* on and the host's answers, and no field of Data that a future feeds is
\* written while the cycle is in progress, that is before join! returns.
C15_OrderIndependent ==
    /\ [](cycle.pc # "idle" =>
            \A p \in SixProbes :
                Field(collector.data, p) = Field(cycle.start.data, p))
    /\ [][(cycle.pc = "join" /\ cycle'.pc = "idle")
             => collector' = update_data(cycle.start, cycle.env)]_vars

C15_Witness ==
    /\ cycle.pc = "join"
    /\ cycle.pending = {"net"}
    /\ cycle.hung = {}
    /\ cycle.res.temp.val # None
    /\ cycle.res.mem.val # None
    /\ collector.data.memory = None
    /\ collector.data.temperature_sensors = None

\* C16: the elapsed time handed to the process probe and the one the
\* network probe uses are both the time between the instant of this cycle
\* and the instant of the previous one.
C16_SameElapsed ==
    CycleDone =>
        LET wall == CycleEnv.instant - CycleStart.last_collection_time
        IN  /\ "proc" \in collector.harvested
                => collector.elapsed.proc * TicksPerSec = wall
            /\ ("net" \in collector.harvested /\ "net" \notin CycleEnv.fails)
                => collector.elapsed.net = wall

\* The fan-out fields of Data and the two timestamps.
FanOutFields(c) ==
    <<[p \in SixProbes |-> Field(c.data, p)], c.data.last_collection_time,
      c.last_collection_time>>

\* C17: a cycle none of whose futures hangs completes; a cycle one of whose
\* futures hangs never completes, stores no fan-out result in Data and
\* advances neither timestamp.
C17_CompletesIffAllComplete ==
    /\ (cycle.pc # "idle" /\ cycle.hung = {}) ~> (cycle.pc = "idle")
    /\ [](cycle.hung # {} => FanOutFields(collector) = FanOutFields(cycle.start))
    /\ [][cycle.hung # {} => cycle'.hung # {}]_vars

C17_Witness ==
    /\ cycle.pc = "join"
    /\ cycle.hung = {"temp"}
    /\ cycle.pending = {"temp"}
    /\ cycle.res.mem.val # None
    /\ cycle.res.net.harvest # None
    /\ collector.data.memory = None
    /\ collector.data.last_collection_time < cycle.env.instant

\* C18: a cycle that computes a network rate, or the processes' cpu usage,
\* against a baseline an earlier cycle recorded divides by the time since
\* the instant of that cycle.
C18_BaselineTimeMatches ==
    CycleDone =>
        /\ ( /\ "net" \in collector.harvested
             /\ "net" \notin CycleEnv.fails
             /\ CycleStart.recorded_at.net # NeverRecorded )
              => CycleStart.last_collection_time = CycleStart.recorded_at.net
        /\ ( /\ "proc" \in collector.harvested
             /\ "proc" \notin CycleEnv.fails
             /\ CycleStart.recorded_at.proc # NeverRecorded )
              => CycleStart.last_collection_time = CycleStart.recorded_at.proc

\* C19: battery_manager is Some exactly when battery_list is Some and not
\* empty, and only init() assigns either of them.
C19_BatteryHandlesFromInitOnly ==
    /\ [](collector.battery_manager # None
            <=> (/\ collector.battery_list # None
                 /\ Unwrap(collector.battery_list) # << >>))
    /\ [][last_call'.op # "init" =>
            /\ collector'.battery_manager = collector.battery_manager
            /\ collector'.battery_list = collector.battery_list]_vars

C19_Witness ==
    /\ CycleDone
    /\ last_call.prev_op = "set"
    /\ ~collector.widgets_to_harvest.use_battery
    /\ collector.battery_manager # None
    /\ collector.battery_list = Some(<<"BAT0">>)
    /\ collector.data.list_of_batteries # None

====
